---- MODULE Spec2Model ----
(***************************************************************************)
(* A model of src/main.py: the four MCP tools store_meal, log_water,       *)
(* sync_google_fit_steps and suggest_exercise_plan over the SQLite store   *)
(* created by init_db.                                                     *)
(*                                                                         *)
(* The store is modelled as SQLite behaves under Python's sqlite3 module   *)
(* with default settings: a SELECT runs outside any transaction, the first *)
(* INSERT/UPDATE of a connection opens a transaction and takes the single  *)
(* write lock, `with connection:` commits on normal exit and rolls back    *)
(* when an exception leaves the block.  `db` is the committed database     *)
(* (what every other connection sees), `work` the uncommitted image of the *)
(* connection that holds the write lock.                                   *)
(*                                                                         *)
(* REAL quantities are kept as exact integers: calories in kcal, water in  *)
(* tenths of a litre (WATER_GOAL 2.5 is 25).                               *)
(***************************************************************************)
EXTENDS Integers, Sequences, FiniteSets, TLC

\* ------------------------------------------------------------------ bounds
MaxNow == 4      \* the clock stops at this half-day
MaxWrites == 3   \* no writing tool is started once this many calls have committed

\* ------------------------------------------------------- program constants
WATER_GOAL == 25
LowBand == 3000
HighBand == 8000

\* --------------------------------------------------------------- the world
Callers == {"a", "b"}

\* Python's None where a text is expected (log_date, GOOGLE_FIT_TOKEN).
PyNone == "<None>"

\* The clock counts half-days of UTC; the server's zone offset is in half-days.
UTCDay(t) == t \div 2
LocalDay(t, z) == (t + z) \div 2

\* str(date): the ISO text of a calendar day.
DayNames == <<"2024-01-01", "2024-01-02", "2024-01-03", "2024-01-04", "2024-01-05">>
DateStr(d) == DayNames[d + 1]
Days == 0..(Len(DayNames) - 1)

\* The date keys a caller passes: nothing, the empty text, or a date's text.
LogDateArgs == {PyNone, "", DateStr(1), DateStr(2)}
Keys == {DateStr(d) : d \in Days}

\* The meals and the amounts of water (in tenths of a litre) callers log.
MealArgs == {<<"toast", 120>>, <<"eggs", 200>>}
WaterArgs == {10, 15}

VARIABLES
    db,        \* the committed database: the four tables and sqlite_sequence
    work,      \* the image seen by the connection holding the write lock
    lock,      \* the caller whose connection holds the write lock, or "none"
    active,    \* the callers the server serves at a time
    pc,        \* each caller's position
    loc,       \* each caller's local variables
    result,    \* what each caller's last call returned or raised
    now,       \* the clock, in half-days of UTC
    tz,        \* the server's zone offset, in half-days
    conn,      \* per caller, whether the connection its call opened is still open
    hist       \* history: per date key, the successful calls so far

vars == <<db, work, lock, active, pc, loc, result, now, tz, conn, hist>>

\* ------------------------------------------------------------------ tables
EmptyDb ==
    [logs |-> {}, food_entries |-> {}, water_logs |-> {}, activity_logs |-> {},
     seq |-> [logs |-> 0, food_entries |-> 0, water_logs |-> 0, activity_logs |-> 0]]

\* date.today() as the text the code uses for a key.
Today == DateStr(LocalDay(now, tz))

\* What a statement of caller p's connection reads.
View(p) == IF lock = p THEN work ELSE db

\* The rows of a table with a given key.
ByDate(table, d) == {r \in table : r.log_date = d}

RECURSIVE SumCalories(_)
SumCalories(S) ==
    IF S = {} THEN 0
    ELSE LET x == CHOOSE y \in S : TRUE IN x.calories + SumCalories(S \ {x})

NoLoc == [op |-> "none"]
NoResult == [kind |-> "none"]

Init ==
    /\ db = EmptyDb
    /\ work = EmptyDb
    /\ lock = "none"
    /\ pc = [p \in Callers |-> "idle"]
    /\ loc = [p \in Callers |-> NoLoc]
    /\ result = [p \in Callers |-> NoResult]
    /\ active = {"a"}    \* one request at a time: calls do not overlap
    /\ now = 3          \* the second half of day 1
    /\ tz = 0           \* the server's zone is UTC
    /\ conn = [p \in Callers |-> "closed"]
    /\ hist = [d \in Keys |-> [meal_sum |-> 0, meal_n |-> 0,
                               water_sum |-> 0, water_n |-> 0, synced |-> -1, sync_n |-> 0]]

\* The calls that have committed a write so far.
RECURSIVE Writes(_)
Writes(S) ==
    IF S = {} THEN 0
    ELSE LET d == CHOOSE k \in S : TRUE IN
           hist[d].meal_n + hist[d].water_n + hist[d].sync_n + Writes(S \ {d})

\* A caller may start a tool.
CanCall(p) == p \in active /\ pc[p] = "idle"
CanCallWriter(p) == CanCall(p) /\ Writes(Keys) < MaxWrites

\* ------------------------------------------------------- the connection
\* A writing statement of p's connection: sqlite3 opens the transaction before
\* the first INSERT/UPDATE, and SQLite grants the write lock to one connection.
\* Mutant: a store without isolation, which lets every connection write.
CanWrite_NoLock(p) == TRUE

CanWrite(p) == lock \in {"none", p}

\* Mutant: every statement is committed at once (an autocommit connection).
Write_Autocommit(p, image) ==
    /\ CanWrite(p)
    /\ db' = image
    /\ work' = image
    /\ UNCHANGED lock

Write(p, image) ==
    /\ CanWrite(p)
    /\ lock' = p
    /\ work' = image
    /\ UNCHANGED db

\* `with get_connection() as c:` left normally: Connection.__exit__ commits.
Commit(p) ==
    IF lock = p
    THEN /\ db' = work
         /\ work' = work
         /\ lock' = "none"
    ELSE UNCHANGED <<db, work, lock>>

\* `with get_connection() as c:` left by an exception: Connection.__exit__ rolls back.
Rollback(p) ==
    IF lock = p
    THEN /\ work' = db
         /\ lock' = "none"
         /\ UNCHANGED db
    ELSE UNCHANGED <<db, work, lock>>

Goto(p, label) == pc' = [pc EXCEPT ![p] = label]

\* get_connection(): sqlite3.connect opens a connection, which the local `c`
\* of the call's frame refers to.  A connection of the caller's previous call
\* that an undiscarded exception still kept open goes with that exception.
Open(p) == conn' = [conn EXCEPT ![p] = "open"]

\* The code never calls close(), and `with connection:` only commits or rolls
\* back.  The connection is closed when the last reference to it goes: when the
\* frame of a call that returns is freed.
Release(p) == conn' = [conn EXCEPT ![p] = "closed"]

\* A call ends.  `result` keeps how (kind), the returned dict (value) or the
\* exception (exc, and the position `at` that raised it), and the call's own
\* locals (call), so that a result can be related to the call that produced it.
Return(p, call, value) ==
    /\ result' = [result EXCEPT ![p] =
                    [kind |-> "ok", op |-> call.op, call |-> call, value |-> value]]
    /\ loc' = [loc EXCEPT ![p] = NoLoc]
    /\ Release(p)
    /\ Goto(p, "idle")

\* An exception leaves the tool: the caller gets it instead of a result.  Its
\* traceback refers to the call's frame, so a connection the call opened stays
\* open for as long as the exception is kept.
Raise(p, call, exc) ==
    /\ result' = [result EXCEPT ![p] =
                    [kind |-> "raised", op |-> call.op, call |-> call, exc |-> exc,
                     at |-> pc[p]]]
    /\ loc' = [loc EXCEPT ![p] = NoLoc]
    /\ UNCHANGED conn
    /\ Goto(p, "idle")

\* ---------------------------------------------------------- store_meal
\* line 85: log_date = log_date or str(date.today()); line 87 opens the connection.
CallStoreMeal(p, description, estimated_calories, log_date) ==
    /\ CanCallWriter(p)
    /\ loc' = [loc EXCEPT ![p] =
                 [op |-> "store_meal", description |-> description,
                  estimated_calories |-> estimated_calories,
                  log_date |-> IF log_date \in {PyNone, ""} THEN Today ELSE log_date,
                  log_id |-> 0]]
    /\ result' = [result EXCEPT ![p] = NoResult]
    /\ Goto(p, "sm_select")
    /\ Open(p)
    /\ UNCHANGED <<db, work, lock, now, tz, active, hist>>

\* lines 89-102: SELECT id FROM logs WHERE log_date=?, then the branch on None.
MealSelect(p) ==
    /\ pc[p] = "sm_select"
    /\ LET found == ByDate(View(p).logs, loc[p].log_date) IN
         IF found = {}
         THEN /\ Goto(p, "sm_insert_log")
              /\ UNCHANGED loc
         ELSE /\ loc' = [loc EXCEPT ![p].log_id = (CHOOSE r \in found : TRUE).id]
              /\ Goto(p, "sm_insert_entry")
    /\ UNCHANGED <<db, work, lock, result, now, tz, active, conn, hist>>

\* lines 95-100: INSERT INTO logs(log_date, total_calories) VALUES (?,0).
\* log_date is UNIQUE: a row that appeared since the SELECT makes the INSERT
\* raise sqlite3.IntegrityError, which leaves the with block (rollback).
InsertLog(image, log_date) ==
    [image EXCEPT
       !.logs = @ \cup {[id |-> image.seq.logs + 1, log_date |-> log_date,
                         total_calories |-> 0]},
       !.seq.logs = @ + 1]

MealInsertLog(p) ==
    /\ pc[p] = "sm_insert_log"
    /\ CanWrite(p)
    /\ IF ByDate(View(p).logs, loc[p].log_date) # {}
       THEN /\ Rollback(p)
            /\ Raise(p, loc[p], "IntegrityError")
       ELSE /\ Write(p, InsertLog(View(p), loc[p].log_date))
            /\ loc' = [loc EXCEPT ![p].log_id = View(p).seq.logs + 1]
            /\ Goto(p, "sm_insert_entry")
            /\ UNCHANGED <<result, conn>>
    /\ UNCHANGED <<now, tz, active, hist>>

\* lines 104-107: INSERT INTO food_entries (log_id, description, calories).
\* Mutant: the new entry takes the place of the entries the log had.
InsertEntry_Replace(image, log_id, description, calories) ==
    [image EXCEPT
       !.food_entries = {e \in @ : e.log_id # log_id}
                           \cup {[id |-> image.seq.food_entries + 1, log_id |-> log_id,
                                  description |-> description, calories |-> calories]},
       !.seq.food_entries = @ + 1]

InsertEntry(image, log_id, description, calories) ==
    [image EXCEPT
       !.food_entries = @ \cup {[id |-> image.seq.food_entries + 1, log_id |-> log_id,
                                 description |-> description, calories |-> calories]},
       !.seq.food_entries = @ + 1]

MealInsertEntry(p) ==
    /\ pc[p] = "sm_insert_entry"
    /\ Write(p, InsertEntry(View(p), loc[p].log_id, loc[p].description,
                            loc[p].estimated_calories))
    /\ Goto(p, "sm_update")
    /\ UNCHANGED <<loc, result, now, tz, active, conn, hist>>

\* lines 109-113: UPDATE logs SET total_calories = total_calories + ? WHERE id = ?.
\* Mutant: the total is set to the meal's calories instead of increased by them.
UpdateTotal_Replace(image, log_id, calories) ==
    [image EXCEPT
       !.logs = {IF r.id = log_id
                 THEN [r EXCEPT !.total_calories = calories]
                 ELSE r : r \in image.logs}]

UpdateTotal(image, log_id, calories) ==
    [image EXCEPT
       !.logs = {IF r.id = log_id
                 THEN [r EXCEPT !.total_calories = @ + calories]
                 ELSE r : r \in image.logs}]

MealUpdate(p) ==
    /\ pc[p] = "sm_update"
    /\ Write(p, UpdateTotal(View(p), loc[p].log_id, loc[p].estimated_calories))
    /\ Goto(p, "sm_exit")
    /\ UNCHANGED <<loc, result, now, tz, active, conn, hist>>

\* The with block ends (commit) and lines 115-119 return the dict.
MealExit(p) ==
    /\ pc[p] = "sm_exit"
    /\ Commit(p)
    /\ hist' = [hist EXCEPT ![loc[p].log_date].meal_sum = @ + loc[p].estimated_calories,
                            ![loc[p].log_date].meal_n = @ + 1]
    /\ Return(p, loc[p], [stored |-> loc[p].description,
                           calories_added |-> loc[p].estimated_calories,
                           date |-> loc[p].log_date])
    /\ UNCHANGED <<now, tz, active>>

\* ----------------------------------------------------------- log_water
\* line 130: log_date = log_date or str(date.today()); line 132 opens the connection.
CallLogWater(p, amount_liters, log_date) ==
    /\ CanCallWriter(p)
    /\ loc' = [loc EXCEPT ![p] =
                 [op |-> "log_water", amount_liters |-> amount_liters,
                  log_date |-> IF log_date \in {PyNone, ""} THEN Today ELSE log_date,
                  record |-> FALSE, total |-> 0]]
    /\ result' = [result EXCEPT ![p] = NoResult]
    /\ Goto(p, "lw_select")
    /\ Open(p)
    /\ UNCHANGED <<db, work, lock, now, tz, active, hist>>

\* lines 134-137: SELECT id FROM water_logs WHERE log_date=?.
WaterSelect(p) ==
    /\ pc[p] = "lw_select"
    /\ loc' = [loc EXCEPT ![p].record = ByDate(View(p).water_logs, loc[p].log_date) # {}]
    /\ Goto(p, "lw_write")
    /\ UNCHANGED <<db, work, lock, result, now, tz, active, conn, hist>>

\* lines 140-143: INSERT INTO water_logs(log_date, water_liters) VALUES (?,?).
InsertWater(image, log_date, amount) ==
    [image EXCEPT
       !.water_logs = @ \cup {[id |-> image.seq.water_logs + 1, log_date |-> log_date,
                               water_liters |-> amount]},
       !.seq.water_logs = @ + 1]

\* lines 145-148: UPDATE water_logs SET water_liters = water_liters + ? WHERE log_date=?.
\* Mutant: the UPDATE has no WHERE clause.
UpdateWater_AllDates(image, log_date, amount) ==
    [image EXCEPT
       !.water_logs = {[r EXCEPT !.water_liters = @ + amount] : r \in image.water_logs}]

UpdateWater(image, log_date, amount) ==
    [image EXCEPT
       !.water_logs = {IF r.log_date = log_date
                       THEN [r EXCEPT !.water_liters = @ + amount]
                       ELSE r : r \in image.water_logs}]

\* lines 139-148: the branch on the record found by the SELECT.  The INSERT of a
\* key that appeared since the SELECT raises sqlite3.IntegrityError (UNIQUE).
WaterWrite(p) ==
    /\ pc[p] = "lw_write"
    /\ CanWrite(p)
    /\ IF ~loc[p].record /\ ByDate(View(p).water_logs, loc[p].log_date) # {}
       THEN /\ Rollback(p)
            /\ Raise(p, loc[p], "IntegrityError")
       ELSE /\ Write(p, IF loc[p].record
                        THEN UpdateWater(View(p), loc[p].log_date, loc[p].amount_liters)
                        ELSE InsertWater(View(p), loc[p].log_date, loc[p].amount_liters))
            /\ Goto(p, "lw_readback")
            /\ UNCHANGED <<loc, result, conn>>
    /\ UNCHANGED <<now, tz, active, hist>>

\* lines 150-155: SELECT water_liters ...; total = float(row[0]) if row else 0.0.
WaterReadBack(p) ==
    /\ pc[p] = "lw_readback"
    /\ LET rows == ByDate(View(p).water_logs, loc[p].log_date) IN
         loc' = [loc EXCEPT ![p].total =
                   IF rows = {} THEN 0 ELSE (CHOOSE r \in rows : TRUE).water_liters]
    /\ Goto(p, "lw_exit")
    /\ UNCHANGED <<db, work, lock, result, now, tz, active, conn, hist>>

\* lines 157-159.
\* Mutant: a total equal to the goal still counts as low.
HydrationStatus_Inclusive(total) == IF total <= WATER_GOAL THEN "low" ELSE "good"

HydrationStatus(total) == IF total < WATER_GOAL THEN "low" ELSE "good"

\* The with block ends (commit); lines 157-164 classify and return.
WaterExit(p) ==
    /\ pc[p] = "lw_exit"
    /\ Commit(p)
    /\ hist' = [hist EXCEPT ![loc[p].log_date].water_sum = @ + loc[p].amount_liters,
                            ![loc[p].log_date].water_n = @ + 1]
    /\ Return(p, loc[p], [total_water |-> loc[p].total,
                           status |-> HydrationStatus(loc[p].total)])
    /\ UNCHANGED <<now, tz, active>>

\* ------------------------------------------------ sync_google_fit_steps
\* GOOGLE_FIT_TOKEN as os.getenv gives it: unset, empty, a text that is not JSON,
\* JSON without the fields of an authorized user, or usable credential data.
TokenValues == {PyNone, "", "not-json", "{}", "{refresh_token,client_id,client_secret}"}

\* lines 177-182: json.loads, Credentials.from_authorized_user_info and build.
\* The exception they raise, or "ok".
LoadCredentials(token_json) ==
    CASE token_json \in {"", "not-json"} -> "JSONDecodeError"
      [] token_json = "{}" -> "ValueError"
      [] OTHER -> "ok"

\* What service...aggregate(...).execute() can do: raise, or return a response.
\* A dict is a record, a list a sequence; a key the response lacks is a field the
\* record lacks.  A JSON scalar is a record naming its type: [int |-> 5],
\* [float |-> [whole |-> 2999, frac |-> 5]] (2999.5) or [str |-> "abc"].
ServiceErrors == {"transport", "auth_expired"}

Point(n) == [startTimeNanos |-> 0, value |-> <<[intVal |-> [int |-> n]]>>]
OneBucket(points) == [bucket |-> <<[dataset |-> <<[point |-> points]>>]>>]

Responses ==
    << OneBucket(<<Point(2999)>>),
       OneBucket(<<Point(3000)>>),
       OneBucket(<<Point(5000), Point(2999)>>),
       [bucket |-> <<[dataset |-> <<[point |-> <<Point(5000)>>]>>],
                     [dataset |-> <<[point |-> <<Point(3000)>>]>>]>>],
       OneBucket(<<>>),
       [bucket |-> <<>>],
       [bucket |-> <<[startTimeMillis |-> 0]>>],
       [bucket |-> <<[dataset |-> <<[dataSourceId |-> 0]>>]>>],
       OneBucket(<<[startTimeNanos |-> 0, value |-> <<[fpVal |-> [int |-> 7]]>>]>>),
       OneBucket(<<Point(3000), [startTimeNanos |-> 0, value |-> <<[intVal |-> [str |-> "abc"]]>>]>>),
       OneBucket(<<[startTimeNanos |-> 0,
                    value |-> <<[intVal |-> [float |-> [whole |-> 2999, frac |-> 5]]]>>]>>),
       OneBucket(<<[startTimeNanos |-> 0]>>),
       OneBucket(<<[startTimeNanos |-> 0, value |-> <<>>]>>),
       [error |-> 0] >>

\* dict.get(key, []) on a dict whose values are lists.
GetList(d, key) == IF key \in DOMAIN d THEN d[key] ELSE <<>>

\* line 204, int(x): an int is itself, a float is truncated, a text that is not a
\* number raises ValueError.
PyInt(v) ==
    IF "int" \in DOMAIN v THEN [exc |-> "ok", n |-> v.int]
    ELSE IF "float" \in DOMAIN v THEN [exc |-> "ok", n |-> v.float.whole]
    ELSE [exc |-> "ValueError", n |-> 0]

\* line 204, one point: int(point["value"][0].get("intVal", 0)).  The steps the
\* point adds, or the exception the expression raises.
PointSteps(point) ==
    IF "value" \notin DOMAIN point THEN [exc |-> "KeyError", n |-> 0]
    ELSE IF Len(point.value) = 0 THEN [exc |-> "IndexError", n |-> 0]
    ELSE IF "intVal" \in DOMAIN point.value[1]
         THEN PyInt(point.value[1].intVal)
         ELSE [exc |-> "ok", n |-> 0]

\* lines 199-204: the three nested loops, as the fold they compute.  An exception
\* ends the loops; `acc` is [exc, n].
RECURSIVE SumPoints(_, _)
SumPoints(points, acc) ==
    IF acc.exc # "ok" \/ points = <<>> THEN acc
    ELSE LET one == PointSteps(Head(points)) IN
           SumPoints(Tail(points), [exc |-> one.exc, n |-> acc.n + one.n])

RECURSIVE SumDatasets(_, _)
SumDatasets(datasets, acc) ==
    IF acc.exc # "ok" \/ datasets = <<>> THEN acc
    ELSE SumDatasets(Tail(datasets), SumPoints(GetList(Head(datasets), "point"), acc))

RECURSIVE SumBuckets(_, _)
SumBuckets(buckets, acc) ==
    IF acc.exc # "ok" \/ buckets = <<>> THEN acc
    ELSE SumBuckets(Tail(buckets), SumDatasets(GetList(Head(buckets), "dataset"), acc))

CountSteps(response) == SumBuckets(GetList(response, "bucket"), [exc |-> "ok", n |-> 0])

\* The local `response` before line 194 has assigned it.
NoResponse == [unassigned |-> TRUE]

\* line 172: token_json = os.getenv("GOOGLE_FIT_TOKEN").
CallSync(p, token_json) ==
    /\ CanCallWriter(p)
    /\ loc' = [loc EXCEPT ![p] =
                 [op |-> "sync", token_json |-> token_json, upstream |-> "not called",
                  response |-> NoResponse, window_day |-> -1, steps |-> 0, today |-> ""]]
    /\ result' = [result EXCEPT ![p] = NoResult]
    /\ Goto(p, "sy_token")
    /\ Release(p)
    /\ UNCHANGED <<db, work, lock, now, tz, active, hist>>

\* line 174: `not token_json` is true of None and of the empty text.
\* Mutant: only an unset variable counts as missing (`is None`).
TokenMissing_NoneOnly(token_json) == token_json = PyNone

TokenMissing(token_json) == token_json \in {PyNone, ""}

\* lines 174-175: without a token the error dict is returned.
SyncCheckToken(p) ==
    /\ pc[p] = "sy_token"
    /\ IF TokenMissing(loc[p].token_json)
       THEN Return(p, loc[p], [error |-> "GOOGLE_FIT_TOKEN not configured"])
       ELSE /\ Goto(p, "sy_creds")
            /\ UNCHANGED <<loc, result, conn>>
    /\ UNCHANGED <<db, work, lock, now, tz, active, hist>>

\* lines 177-182: the credential is parsed and the service object built.
SyncCredentials(p) ==
    /\ pc[p] = "sy_creds"
    /\ IF LoadCredentials(loc[p].token_json) = "ok"
       THEN /\ Goto(p, "sy_request")
            /\ UNCHANGED <<loc, result, conn>>
       ELSE Raise(p, loc[p], LoadCredentials(loc[p].token_json))
    /\ UNCHANGED <<db, work, lock, now, tz, active, hist>>

\* What the service did, as the call records it: "transport", "auth_expired",
\* "malformed" (a body without the bucket collection) or "ok".
Upstream(response) == IF "bucket" \in DOMAIN response THEN "ok" ELSE "malformed"

\* lines 194-197: execute() raises (no connection, authorisation expired).
SyncRequestFails(p, err) ==
    /\ pc[p] = "sy_request"
    /\ Raise(p, [loc[p] EXCEPT !.upstream = err, !.window_day = UTCDay(now)], "HttpError")
    /\ UNCHANGED <<db, work, lock, now, tz, active, hist>>

\* lines 184-204: the window from utcnow(), the request, and the sum over the
\* response.
SyncRequest(p, response) ==
    /\ pc[p] = "sy_request"
    /\ LET sum == CountSteps(response)
           call == [loc[p] EXCEPT !.upstream = Upstream(response),
                                  !.response = response,
                                  !.window_day = UTCDay(now),
                                  !.steps = sum.n]
       IN IF sum.exc = "ok"
          THEN /\ loc' = [loc EXCEPT ![p] = call]
               /\ Goto(p, "sy_write")
               /\ UNCHANGED <<result, conn>>
          ELSE Raise(p, call, sum.exc)
    /\ UNCHANGED <<db, work, lock, now, tz, active, hist>>

\* lines 209-212: INSERT OR REPLACE INTO activity_logs (log_date, steps): the row
\* with the same UNIQUE log_date is deleted and a new row inserted.
\* Mutant: the new steps are added to the day's stored steps.
ReplaceActivity_Accumulate(image, log_date, steps) ==
    LET old == ByDate(image.activity_logs, log_date) IN
    [image EXCEPT
       !.activity_logs = {r \in @ : r.log_date # log_date}
                           \cup {[id |-> image.seq.activity_logs + 1, log_date |-> log_date,
                                  steps |-> steps + (IF old = {} THEN 0
                                                     ELSE (CHOOSE r \in old : TRUE).steps)]},
       !.seq.activity_logs = @ + 1]

\* Mutant: log_date is not UNIQUE, so OR REPLACE finds no row to replace.
ReplaceActivity_NoDelete(image, log_date, steps) ==
    [image EXCEPT
       !.activity_logs = @ \cup {[id |-> image.seq.activity_logs + 1,
                                  log_date |-> log_date, steps |-> steps]},
       !.seq.activity_logs = @ + 1]

ReplaceActivity(image, log_date, steps) ==
    [image EXCEPT
       !.activity_logs = {r \in @ : r.log_date # log_date}
                           \cup {[id |-> image.seq.activity_logs + 1,
                                  log_date |-> log_date, steps |-> steps]},
       !.seq.activity_logs = @ + 1]

\* lines 206-212: today = str(date.today()), the connection, then the write.
SyncWrite(p) ==
    /\ pc[p] = "sy_write"
    /\ Write(p, ReplaceActivity(View(p), Today, loc[p].steps))
    /\ loc' = [loc EXCEPT ![p].today = Today]
    /\ Open(p)
    /\ Goto(p, "sy_exit")
    /\ UNCHANGED <<result, now, tz, active, hist>>

\* The with block ends (commit); lines 214-217 return the dict.
SyncExit(p) ==
    /\ pc[p] = "sy_exit"
    /\ Commit(p)
    /\ hist' = [hist EXCEPT ![loc[p].today].synced = loc[p].steps,
                            ![loc[p].today].sync_n = @ + 1]
    /\ Return(p, loc[p], [date |-> loc[p].today, steps_today |-> loc[p].steps])
    /\ UNCHANGED <<now, tz, active>>

\* ------------------------------------------------ suggest_exercise_plan
\* lines 237-253: the three bands.
\* Mutant: the boundaries belong to the lower band.
ActivityLevel_Inclusive(steps) ==
    IF steps <= LowBand THEN "low"
    ELSE IF steps <= HighBand THEN "moderate"
    ELSE "high"

ActivityLevel(steps) ==
    IF steps < LowBand THEN "low"
    ELSE IF LowBand <= steps /\ steps < HighBand THEN "moderate"
    ELSE "high"

\* lines 237-261: the recommendation for a step count.
Plan(steps) ==
    LET level == ActivityLevel(steps) IN
    [steps_today |-> steps,
     activity_level |-> level,
     recommended_intensity |->
         CASE level = "low" -> "beginner"
           [] level = "moderate" -> "intermediate"
           [] OTHER -> "advanced",
     recommended_duration |->
         CASE level = "low" -> "20-30 minutes"
           [] level = "moderate" -> "30 minutes"
           [] OTHER -> "20 minutes",
     workout_focus |->
         CASE level = "low" -> "light cardio and mobility"
           [] level = "moderate" -> "fat burning workout"
           [] OTHER -> "HIIT or strength training"]

\* lines 232-261: what the tool returns for the rows the SELECT fetched.
\* Mutant: a missing row is read as zero steps.
Suggestion_AbsentAsZero(rows) ==
    IF rows = {} THEN Plan(0)
    ELSE Plan((CHOOSE r \in rows : TRUE).steps)

Suggestion(rows) ==
    IF rows = {} THEN [message |-> "No step data synced yet."]
    ELSE Plan((CHOOSE r \in rows : TRUE).steps)

\* lines 227-230: SELECT steps FROM ActivityLog WHERE log_date = today.
\* Mutant: when today has no row the rows of the other dates are fetched.
SelectSteps_AnyDate(image, today) ==
    IF ByDate(image.activity_logs, today) # {}
    THEN ByDate(image.activity_logs, today)
    ELSE image.activity_logs

SelectSteps(image, today) == ByDate(image.activity_logs, today)

\* line 225: today = str(date.today()); line 227 opens the connection.
CallSuggest(p) ==
    /\ CanCall(p)
    /\ loc' = [loc EXCEPT ![p] = [op |-> "suggest", today |-> Today, rows |-> 0]]
    /\ result' = [result EXCEPT ![p] = NoResult]
    /\ Goto(p, "su_select")
    /\ Open(p)
    /\ UNCHANGED <<db, work, lock, now, tz, active, hist>>

\* lines 227-261: the SELECT, the end of the with block, and the return.
SuggestSelect(p) ==
    /\ pc[p] = "su_select"
    /\ Commit(p)
    /\ LET data == SelectSteps(View(p), loc[p].today) IN
         Return(p, [loc[p] EXCEPT !.rows = Cardinality(data)], Suggestion(data))
    /\ UNCHANGED <<now, tz, active, hist>>

\* ------------------------------------------------------ store failures
\* The positions at which a statement (or the commit) runs on the connection.
StorePcs == {"sm_select", "sm_insert_log", "sm_insert_entry", "sm_update", "sm_exit",
             "lw_select", "lw_write", "lw_readback", "lw_exit",
             "sy_write", "sy_exit", "su_select"}

\* The statement raises sqlite3.OperationalError (I/O error, disk full, database
\* locked past the timeout): the exception leaves the with block, __exit__ rolls
\* back, and the exception reaches the caller.
StoreFails(p) ==
    /\ pc[p] \in StorePcs
    /\ Rollback(p)
    /\ Raise(p, loc[p], "OperationalError")
    /\ UNCHANGED <<now, tz, active, hist>>

\* The caller is done with the exception a call raised: the exception, its
\* traceback, the frame and the connection the frame referred to are freed.
DiscardException(p) ==
    /\ pc[p] = "idle"
    /\ result[p].kind = "raised"
    /\ conn[p] = "open"
    /\ result' = [result EXCEPT ![p] = NoResult]
    /\ Release(p)
    /\ UNCHANGED <<db, work, lock, pc, loc, now, tz, active, hist>>

\* ------------------------------------------------------------- the clock
Tick ==
    /\ now < MaxNow
    /\ now' = now + 1
    /\ UNCHANGED <<db, work, lock, pc, loc, result, tz, active, conn, hist>>

Next ==
    \/ \E p \in Callers, m \in MealArgs, k \in LogDateArgs :
         CallStoreMeal(p, m[1], m[2], k)
    \/ \E p \in Callers : MealSelect(p)
    \/ \E p \in Callers : MealInsertLog(p)
    \/ \E p \in Callers : MealInsertEntry(p)
    \/ \E p \in Callers : MealUpdate(p)
    \/ \E p \in Callers : MealExit(p)
    \/ \E p \in Callers, w \in WaterArgs, k \in LogDateArgs : CallLogWater(p, w, k)
    \/ \E p \in Callers : WaterSelect(p)
    \/ \E p \in Callers : WaterWrite(p)
    \/ \E p \in Callers : WaterReadBack(p)
    \/ \E p \in Callers : WaterExit(p)
    \/ \E p \in Callers, t \in TokenValues : CallSync(p, t)
    \/ \E p \in Callers : SyncCheckToken(p)
    \/ \E p \in Callers : SyncCredentials(p)
    \/ \E p \in Callers, e \in ServiceErrors : SyncRequestFails(p, e)
    \/ \E p \in Callers, i \in 1..Len(Responses) : SyncRequest(p, Responses[i])
    \/ \E p \in Callers : SyncWrite(p)
    \/ \E p \in Callers : SyncExit(p)
    \/ \E p \in Callers : CallSuggest(p)
    \/ \E p \in Callers : SuggestSelect(p)
    \/ \E p \in Callers : StoreFails(p)
    \/ \E p \in Callers : DiscardException(p)
    \/ Tick

Spec == Init /\ [][Next]_vars

\* ------------------------------------------- two callers on one date key
\* Two clients of the server call store_meal and log_water for the same date
\* while the other's call is under way: their statements interleave.
RaceDate == DateStr(1)

InitRace ==
    /\ db = EmptyDb
    /\ work = EmptyDb
    /\ lock = "none"
    /\ pc = [p \in Callers |-> "idle"]
    /\ loc = [p \in Callers |-> NoLoc]
    /\ result = [p \in Callers |-> NoResult]
    /\ active = Callers
    /\ now = 3
    /\ tz = 0
    /\ conn = [p \in Callers |-> "closed"]
    /\ hist = [d \in Keys |-> [meal_sum |-> 0, meal_n |-> 0,
                               water_sum |-> 0, water_n |-> 0, synced |-> -1, sync_n |-> 0]]

NextRace ==
    \/ \E p \in Callers, m \in MealArgs : CallStoreMeal(p, m[1], m[2], RaceDate)
    \/ \E p \in Callers : MealSelect(p)
    \/ \E p \in Callers : MealInsertLog(p)
    \/ \E p \in Callers : MealInsertEntry(p)
    \/ \E p \in Callers : MealUpdate(p)
    \/ \E p \in Callers : MealExit(p)
    \/ \E p \in Callers, w \in WaterArgs : CallLogWater(p, w, RaceDate)
    \/ \E p \in Callers : WaterSelect(p)
    \/ \E p \in Callers : WaterWrite(p)
    \/ \E p \in Callers : WaterReadBack(p)
    \/ \E p \in Callers : WaterExit(p)
    \/ \E p \in Callers : StoreFails(p)

SpecRace == InitRace /\ [][NextRace]_vars

\* --------------------------------------------- servers in other time zones
\* The zone of the server is a setting of the machine it runs on: half a day
\* behind UTC, UTC, or half a day ahead.  One caller syncs and asks for plans.
ZoneOffsets == {-1, 0, 1}

InitZones ==
    /\ db = EmptyDb
    /\ work = EmptyDb
    /\ lock = "none"
    /\ pc = [p \in Callers |-> "idle"]
    /\ loc = [p \in Callers |-> NoLoc]
    /\ result = [p \in Callers |-> NoResult]
    /\ active = {"a"}
    /\ now = 3
    /\ tz \in ZoneOffsets
    /\ conn = [p \in Callers |-> "closed"]
    /\ hist = [d \in Keys |-> [meal_sum |-> 0, meal_n |-> 0,
                               water_sum |-> 0, water_n |-> 0, synced |-> -1, sync_n |-> 0]]

NextZones ==
    \/ \E p \in Callers, t \in TokenValues : CallSync(p, t)
    \/ \E p \in Callers : SyncCheckToken(p)
    \/ \E p \in Callers : SyncCredentials(p)
    \/ \E p \in Callers, e \in ServiceErrors : SyncRequestFails(p, e)
    \/ \E p \in Callers, i \in 1..Len(Responses) : SyncRequest(p, Responses[i])
    \/ \E p \in Callers : SyncWrite(p)
    \/ \E p \in Callers : SyncExit(p)
    \/ \E p \in Callers : CallSuggest(p)
    \/ \E p \in Callers : SuggestSelect(p)
    \/ \E p \in Callers : StoreFails(p)
    \/ Tick

SpecZones == InitZones /\ [][NextZones]_vars

\* ================================================================ claims
\* The entries a DailyLog owns.
EntriesOf(image, log) == {e \in image.food_entries : e.log_id = log.id}

\* Caller p's last call was tool `op` and ended `kind` ("ok" or "raised").
Ended(p, op, kind) == result[p].kind = kind /\ result[p].op = op

\* C1: for every date key d, after n successful store_meal calls on d with
\* calories c1..cn (whatever other calls came between), the one DailyLog of d has
\* total_calories = c1+...+cn and exactly n FoodEntry rows reference it; with no
\* successful call on d there is no DailyLog of d.
C1_MealTotals ==
    \A d \in Keys :
      IF hist[d].meal_n = 0
      THEN ByDate(db.logs, d) = {}
      ELSE \E log \in db.logs :
             /\ ByDate(db.logs, d) = {log}
             /\ log.total_calories = hist[d].meal_sum
             /\ Cardinality(EntriesOf(db, log)) = hist[d].meal_n

\* Two meals (120 and 200) stored on one date, with a write of another tool made too.
C1_Witness ==
    \E d \in Keys, d2 \in Keys :
      /\ hist[d].meal_n = 2
      /\ hist[d].meal_sum = 320
      /\ hist[d2].water_n + hist[d2].sync_n > 0

\* The water stored for each date key is the sum of the amounts logged on it.
C2_Stored ==
    \A d \in Keys :
      IF hist[d].water_n = 0
      THEN ByDate(db.water_logs, d) = {}
      ELSE \E r \in db.water_logs :
             /\ ByDate(db.water_logs, d) = {r}
             /\ r.water_liters = hist[d].water_sum

\* The log_water call that returns reports the sum and classifies it.
C2_Returned ==
    \A p \in Callers :
      (pc[p] = "lw_exit" /\ result'[p].kind = "ok") =>
         LET d == loc[p].log_date IN
           /\ hist'[d].water_n = hist[d].water_n + 1
           /\ result'[p].value.total_water = hist'[d].water_sum
           /\ (result'[p].value.status = "low") <=> (hist'[d].water_sum < 25)
           /\ result'[p].value.status \in {"low", "good"}

\* C2: for every date key d, the water stored for d is the sum of the amounts of
\* the log_water calls on d, the call that returns reports that sum as
\* total_water, and its status is "low" exactly when the sum is below WATER_GOAL
\* (a sum equal to the goal is "good").
C2_WaterTotals == [](C2_Stored) /\ [][C2_Returned]_vars

\* The second log_water call on a date returned a total equal to the goal: "good".
C2_Witness ==
    \E p \in Callers :
      /\ Ended(p, "log_water", "ok")
      /\ hist[result[p].call.log_date].water_n = 2
      /\ result[p].value.total_water = 25
      /\ result[p].value.status = "good"

\* C3: the steps stored for a day are those of the most recent successful sync of
\* that day, whatever the earlier syncs of the day computed; a day never synced
\* has no ActivityLog.
C3_Replace ==
    \A d \in Keys :
      IF hist[d].sync_n = 0
      THEN ByDate(db.activity_logs, d) = {}
      ELSE \E r \in db.activity_logs :
             /\ ByDate(db.activity_logs, d) = {r}
             /\ r.steps = hist[d].synced

\* A day synced twice, the second time with 7999 steps (after a first row, which
\* the second replaced: two ids were handed out for the day's one row).
C3_Witness ==
    \E d \in Keys :
      /\ hist[d].sync_n = 2
      /\ hist[d].synced = 7999
      /\ db.seq.activity_logs = 2
      /\ Cardinality(db.activity_logs) = 1

\* C4: a suggestion made from a stored ActivityLog has exactly one level of
\* low / moderate / high: low iff steps < 3000, moderate iff 3000 <= steps < 8000,
\* high iff steps >= 8000.
C4_Bands ==
    \A p \in Callers :
      (Ended(p, "suggest", "ok") /\ result[p].call.rows > 0) =>
         LET n == result[p].value.steps_today
             level == result[p].value.activity_level
         IN /\ n >= 0
            /\ level \in {"low", "moderate", "high"}
            /\ (level = "low") <=> (n < 3000)
            /\ (level = "moderate") <=> (3000 <= n /\ n < 8000)
            /\ (level = "high") <=> (n >= 8000)

\* A suggestion for exactly 3000 steps: the boundary belongs to the higher band.
C4_Witness ==
    \E p \in Callers :
      /\ Ended(p, "suggest", "ok")
      /\ result[p].call.rows > 0
      /\ result[p].value.steps_today = 3000
      /\ result[p].value.activity_level = "moderate"

\* C5: a suggest_exercise_plan call whose SELECT finds no ActivityLog for today
\* returns the "no data" message and nothing else (no level, no steps_today);
\* one that finds a row returns a recommendation, and for 0 stored steps that is
\* the low level with steps_today = 0.  The tool raises nothing of its own: the
\* only exception is the store's.
C5_NoData ==
    \A p \in Callers :
      /\ Ended(p, "suggest", "ok") =>
           IF result[p].call.rows = 0
           THEN DOMAIN result[p].value = {"message"}
           ELSE /\ "message" \notin DOMAIN result[p].value
                /\ {"steps_today", "activity_level"} \subseteq DOMAIN result[p].value
                /\ result[p].value.steps_today = 0 => result[p].value.activity_level = "low"
      /\ Ended(p, "suggest", "raised") => result[p].exc = "OperationalError"

\* The "no data" answer, given while another day does have an ActivityLog.
C5_Witness ==
    \E p \in Callers :
      /\ Ended(p, "suggest", "ok")
      /\ result[p].call.rows = 0
      /\ db.activity_logs # {}
      /\ ByDate(db.activity_logs, result[p].call.today) = {}

\* The committed store is consistent: totals, entries and their DailyLogs agree.
C6_Consistent ==
    /\ \A log \in db.logs :
         /\ log.total_calories = SumCalories(EntriesOf(db, log))
         /\ EntriesOf(db, log) # {}
    /\ \A e \in db.food_entries : \E log \in db.logs : log.id = e.log_id

MealPcs == {"sm_select", "sm_insert_log", "sm_insert_entry", "sm_update", "sm_exit"}

\* A failing store_meal step, and every step before the commit, leaves the
\* committed store as it was.
C6_FailureUndone ==
    \A p \in Callers :
      /\ (pc[p] \in MealPcs /\ result'[p].kind = "raised") =>
           /\ db' = db
           /\ lock' # p
           /\ hist' = hist
      /\ (pc[p] \in MealPcs \ {"sm_exit"}) => db' = db

\* C6: store_meal is all-or-nothing.  In every state the committed store (what
\* any other call reads) has, for each DailyLog, total_calories equal to the sum
\* of the calories of the entries that reference it, no DailyLog without an entry
\* and no entry without its DailyLog; and a store_meal call that fails at any
\* step leaves the committed store exactly as it was and holds no lock.
C6_AllOrNothing == [](C6_Consistent) /\ [][C6_FailureUndone]_vars

\* A first meal of a date failed at its last statement, after the DailyLog and
\* the entry had been inserted: nothing of it is in the store.
C6_Witness ==
    \E p \in Callers :
      /\ Ended(p, "store_meal", "raised")
      /\ result[p].at = "sm_update"
      /\ ByDate(db.logs, result[p].call.log_date) = {}
      /\ db.food_entries = {}
      /\ lock = "none"

\* C7: each date key has at most one DailyLog, at most one WaterLog and at most
\* one ActivityLog, in the committed store and in the image a transaction works
\* on; and a date with a successfully stored meal has exactly one DailyLog.
OnePerDate(table) == \A r1 \in table, r2 \in table : r1.log_date = r2.log_date => r1 = r2

SyncOf(p) == result[p].kind # "none" /\ result[p].op = "sync"

\* Without a token the result is the error dict and the call goes no further.
C8_Absent ==
    \A p \in Callers :
      /\ (SyncOf(p) /\ result[p].call.token_json \in {PyNone, ""}) =>
           /\ result[p].kind = "ok"
           /\ DOMAIN result[p].value = {"error"}
           /\ result[p].call.upstream = "not called"
      /\ pc[p] \in {"sy_creds", "sy_request", "sy_write", "sy_exit"} =>
           loc[p].token_json \notin {PyNone, ""}

\* The step that finds the token missing writes nothing.
C8_NoWrite ==
    \A p \in Callers :
      (pc[p] = "sy_token" /\ loc[p].token_json \in {PyNone, ""}) =>
         /\ db' = db
         /\ work' = work
         /\ lock' = lock
         /\ hist' = hist

\* C8: a sync whose token is unset or empty returns the error dict, raises
\* nothing, never calls the service, and leaves the store as it was.
C8_NoCredential == [](C8_Absent) /\ [][C8_NoWrite]_vars

\* A sync with the empty token ended with the error dict while the store holds
\* an ActivityLog from an earlier sync.
C8_Witness ==
    \E p \in Callers :
      /\ SyncOf(p)
      /\ result[p].call.token_json = ""
      /\ result[p].kind = "ok"
      /\ db.activity_logs # {}

\* C9 (as claimed): a sync whose token is present but invalid returns a
\* structured error result; no exception escapes.
C9_InvalidCredential ==
    \A p \in Callers :
      (SyncOf(p) /\ result[p].call.token_json \in {"not-json", "{}"}) =>
         /\ result[p].kind = "ok"
         /\ "error" \in DOMAIN result[p].value

\* C10 (as claimed): a sync whose service call failed (transport failure, expired
\* authorisation, or a response without the bucket collection) ends in an error
\* and has not written today's ActivityLog.
UpstreamFailures == {"transport", "auth_expired", "malformed"}

C10_UpstreamSurfaced ==
    \A p \in Callers :
      /\ (SyncOf(p) /\ result[p].call.upstream \in UpstreamFailures) =>
           result[p].kind = "raised"
      /\ pc[p] = "sy_exit" => loc[p].upstream \notin UpstreamFailures

\* The step total the claim describes: every data point of every dataset of every
\* bucket adds its integer value, and a point with no value list, an empty value
\* list, no intVal or an intVal that is not an integer adds 0.
ClaimedPoint(point) ==
    IF "value" \notin DOMAIN point THEN 0
    ELSE IF Len(point.value) = 0 THEN 0
    ELSE IF "intVal" \notin DOMAIN point.value[1] THEN 0
    ELSE IF "int" \in DOMAIN point.value[1].intVal THEN point.value[1].intVal.int
    ELSE 0

RECURSIVE ClaimedPoints(_)
ClaimedPoints(points) ==
    IF points = <<>> THEN 0
    ELSE ClaimedPoint(Head(points)) + ClaimedPoints(Tail(points))

RECURSIVE ClaimedDatasets(_)
ClaimedDatasets(datasets) ==
    IF datasets = <<>> THEN 0
    ELSE ClaimedPoints(GetList(Head(datasets), "point")) + ClaimedDatasets(Tail(datasets))

RECURSIVE ClaimedBuckets(_)
ClaimedBuckets(buckets) ==
    IF buckets = <<>> THEN 0
    ELSE ClaimedDatasets(GetList(Head(buckets), "dataset")) + ClaimedBuckets(Tail(buckets))

\* C11 (as claimed): for every response the service returns, the sum does not
\* fail (a sync that raises at the request does so because execute() raised) and
\* the step total the call goes on to write is the claimed sum of the response.
C11_TolerantSum ==
    \A p \in Callers :
      /\ (SyncOf(p) /\ result[p].kind = "raised" /\ result[p].at = "sy_request") =>
           result[p].call.upstream \in ServiceErrors
      /\ pc[p] \in {"sy_write", "sy_exit"} =>
           loc[p].steps = ClaimedBuckets(GetList(loc[p].response, "bucket"))

\* C12 (as claimed): whenever no invocation is in progress, no store connection
\* is open: every tool released the connection it opened, however it ended.
C12_Released ==
    (\A p \in Callers : pc[p] = "idle") =>
       Cardinality({p \in Callers : conn[p] = "open"}) = 0

\* The store reduced to what the claim lets the suggestion depend on: the step
\* count stored for today, and nothing else.
TodayOnly(image, today) ==
    [EmptyDb EXCEPT !.activity_logs =
        {[id |-> 0, log_date |-> today, steps |-> r.steps] :
            r \in ByDate(image.activity_logs, today)}]

SuggestStep(p) == pc[p] # pc'[p] /\ "su_select" \in {pc[p], pc'[p]}

\* C13: suggest_exercise_plan is read-only and deterministic: no step of it
\* changes a row of any table, and what it returns is what it would return on a
\* store holding nothing but today's step count, so two stores with the same
\* step count for today give identical results.
C13_ReadOnlyDeterministic ==
    [][\A p \in Callers :
         /\ SuggestStep(p) => db' = db /\ work' = work
         /\ (pc[p] = "su_select" /\ result'[p].kind = "ok") =>
              result'[p].value =
                 Suggestion(SelectSteps(TodayOnly(db, loc[p].today), loc[p].today))]_vars

\* A plan was returned from a store that also holds meals and water.
C13_Witness ==
    \E p \in Callers :
      /\ Ended(p, "suggest", "ok")
      /\ "steps_today" \in DOMAIN result[p].value
      /\ db.logs # {}
      /\ db.water_logs # {}

\* The total stored for a date key (0 while the key has no row).
MealTotal(image, d) ==
    IF ByDate(image.logs, d) = {} THEN 0
    ELSE (CHOOSE r \in ByDate(image.logs, d) : TRUE).total_calories

WaterTotal(image, d) ==
    IF ByDate(image.water_logs, d) = {} THEN 0
    ELSE (CHOOSE r \in ByDate(image.water_logs, d) : TRUE).water_liters

EndsOk(p) == pc[p] # "idle" /\ result'[p].kind = "ok"

\* The committed totals are the sums of the calls that returned, and the
\* entries are theirs and no one else's.
C14_Totals ==
    \A d \in Keys :
      /\ MealTotal(db, d) = hist[d].meal_sum
      /\ WaterTotal(db, d) = hist[d].water_sum
      /\ \A log \in ByDate(db.logs, d) :
           /\ Cardinality(EntriesOf(db, log)) = hist[d].meal_n
           /\ SumCalories(EntriesOf(db, log)) = hist[d].meal_sum

\* A returning call adds exactly its amount to the committed total of its date
\* (and, for a meal, exactly its one entry); every other step, a failing call's
\* included, leaves the committed store as it was.
C14_Steps ==
    /\ (\E p \in Callers : EndsOk(p)) \/ db' = db
    /\ \A p \in Callers :
         EndsOk(p) =>
           LET d == loc[p].log_date IN
           IF loc[p].op = "store_meal"
           THEN /\ MealTotal(db', d) = MealTotal(db, d) + loc[p].estimated_calories
                /\ WaterTotal(db', d) = WaterTotal(db, d)
                /\ \E e \in db'.food_entries \ db.food_entries :
                     /\ db'.food_entries = db.food_entries \cup {e}
                     /\ e.calories = loc[p].estimated_calories
                     /\ e.log_id \in {r.id : r \in ByDate(db'.logs, d)}
           ELSE /\ WaterTotal(db', d) = WaterTotal(db, d) + loc[p].amount_liters
                /\ MealTotal(db', d) = MealTotal(db, d)
                /\ db'.food_entries = db.food_entries

\* C14: when two callers run store_meal (or log_water) for the same date with
\* their statements interleaved in any order, no returned call's amount is lost:
\* the total of the date is the sum of the amounts of exactly the calls that
\* returned, and a call whose amount is not in the total raised a store error to
\* its caller and left no FoodEntry.
C14_NoLostAmount == [](C14_Totals) /\ [][C14_Steps]_vars

\* Both callers looked the date up before either had written: one of them
\* returned, the other's INSERT met the row of the first and raised.
C14_Witness ==
    \E p, q \in Callers :
      /\ Ended(p, "store_meal", "ok")
      /\ Ended(q, "store_meal", "raised")
      /\ result[q].exc = "IntegrityError"
      /\ MealTotal(db, RaceDate) = result[p].call.estimated_calories

\* C15 (as claimed): sync_google_fit_steps uses one day boundary: at the instant
\* it builds the request, the calendar day whose midnight starts the step window
\* is the day of the date key that date.today() gives for storing the count and
\* that suggest_exercise_plan reads, in every zone of the server.
C15_OneDayBoundary ==
    [][\A p \in Callers :
         (pc[p] = "sy_request" /\ pc'[p] = "sy_write") =>
            DateStr(loc'[p].window_day) = Today]_vars

\* Every entry belongs to a log that exists.
C16_Referenced ==
    \A e \in db.food_entries : \E log \in db.logs : log.id = e.log_id

\* No step takes an entry away or alters one, and no step takes a log away.
C16_Kept ==
    /\ db.food_entries \subseteq db'.food_entries
    /\ \A log \in db.logs :
         \E kept \in db'.logs : kept.id = log.id /\ kept.log_date = log.log_date

\* C16: the meal ledger is append-only: a FoodEntry once stored keeps its
\* description, calories and owning log and is never deleted, a DailyLog once
\* stored is never deleted, and every FoodEntry references a DailyLog that exists.
C16_AppendOnly == [](C16_Referenced) /\ [][C16_Kept]_vars

\* A log holding two entries, beside the log of another date.
C16_Witness ==
    \E log, other \in db.logs :
      /\ log.log_date # other.log_date
      /\ Cardinality(EntriesOf(db, log)) = 2

\* The entries of the logs of a date key.
EntriesOfDate(image, d) ==
    {e \in image.food_entries : \E log \in ByDate(image.logs, d) : log.id = e.log_id}

\* A table without the rows of one date key.
OtherDates(table, d) == {r \in table : r.log_date # d}

\* Caller p's tool takes a step.
Acts(p) == pc[p] # "idle" /\ pc'[p] # pc[p]

C17_Step(p) ==
    CASE loc[p].op = "store_meal" ->
           LET d == loc[p].log_date IN
           /\ OtherDates(db'.logs, d) = OtherDates(db.logs, d)
           /\ db'.food_entries \ EntriesOfDate(db', d) = db.food_entries \ EntriesOfDate(db, d)
           /\ db'.water_logs = db.water_logs
           /\ db'.activity_logs = db.activity_logs
      [] loc[p].op = "log_water" ->
           LET d == loc[p].log_date IN
           /\ OtherDates(db'.water_logs, d) = OtherDates(db.water_logs, d)
           /\ db'.logs = db.logs
           /\ db'.food_entries = db.food_entries
           /\ db'.activity_logs = db.activity_logs
      [] loc[p].op = "sync" ->
           LET today == loc[p].today IN   \* the key the call took from date.today()
           /\ OtherDates(db'.activity_logs, today) = OtherDates(db.activity_logs, today)
           /\ db'.logs = db.logs
           /\ db'.food_entries = db.food_entries
           /\ db'.water_logs = db.water_logs
      [] OTHER -> db' = db

\* C17: each mutating operation touches only its own aggregate and its own date
\* key: store_meal on d changes only the DailyLog and the entries of d, log_water
\* on d only the WaterLog of d, sync_google_fit_steps only the ActivityLog of
\* today; and nothing but a step of a tool changes a row.
C17_OwnAggregateOnly ==
    [][/\ \A p \in Callers : Acts(p) => C17_Step(p)
       /\ (\A p \in Callers : ~Acts(p)) => db' = db]_vars

\* The water of one date was added to (10 + 15) while another date had its own
\* water row.
C17_Witness ==
    \E r, other \in db.water_logs :
      /\ r.log_date # other.log_date
      /\ r.water_liters = 25

====
